---- MODULE Spec2Model ----
(***************************************************************************)
(* Model of translation_client/client.py: the TranslationClient polling    *)
(* engine.  One foreground caller issues wait_for_completion and           *)
(* check_status_async calls; every check_status_async call that falls      *)
(* through to line 156 starts a background thread running _async_poll.     *)
(* All threads of a client share the single threading.Event _stop_event.   *)
(***************************************************************************)
EXTENDS Integers, Sequences, FiniteSets, TLC

(* ---------------- bounds of the model ---------------- *)
\* number of public calls the foreground caller makes
MaxCalls == 2
\* largest finite value given to max_retries
MaxRetriesBound == 2
\* cap on the fetches of one run of _poll_status (only bites when max_retries is infinite)
MaxFetches == MaxRetriesBound + 1

(* ---------------- program constants (client.py __init__) ---------------- *)
\* lines 35, 41, 42: the configuration __init__ sets
DefaultConfig == [initial_polling_interval |-> 1, backoff_factor |-> 2, max_interval |-> 30]
\* random.randint(1, 4) on line 80
JitterLo == 1
JitterHi == 4
\* float("inf"), the default of max_retries
INF == 0 - 1

(* ---------------- the remote endpoint ---------------- *)
\* outcome classes of one requests.get + raise_for_status + json()
ServerOutcomes == {"pending", "completed", "error"}
PendingOnly == {"pending"}
AllOutcomes == ServerOutcomes \cup {"unknown", "timeout", "connection", "malformed", "http_error", "other_exception"}

VARIABLES
    stop_event,      \* self._stop_event (is_set())
    current_thread,  \* self.current_thread: 0 for None, else the id of the thread
    max_retries,     \* self.max_retries: INF or a natural number
    outcomes,        \* the outcome classes the remote endpoint can produce
    config,          \* self.initial_polling_interval, self.backoff_factor, self.max_interval
    fgpc,            \* position of the foreground caller
    calls,           \* the public calls made so far, in order
    runs,            \* runs[0]: _poll_status of wait_for_completion; runs[t]: thread started by call t
    cbLog            \* the callback invocations, in order

vars == <<stop_event, current_thread, max_retries, outcomes, config, fgpc, calls, runs, cbLog>>

initial_polling_interval == config.initial_polling_interval
backoff_factor == config.backoff_factor
max_interval == config.max_interval

RunIds == 0..MaxCalls
ThreadIds == 1..MaxCalls

NoRun == [pc |-> "none", retries |-> 0, curr_interval |-> 0, fetches |-> 0, sleeps |-> 0,
          last |-> "none", result |-> "none", cancelled |-> FALSE, consec |-> 0,
           born_cancelled |-> FALSE]

\* lines 53-54: the locals of _poll_status at loop entry
NewRun == [pc |-> "poll", retries |-> 0, curr_interval |-> initial_polling_interval,
           fetches |-> 0, sleeps |-> 0, last |-> "none", result |-> "none", cancelled |-> FALSE, consec |-> 0,
           born_cancelled |-> FALSE]

Min(a, b) == IF a <= b THEN a ELSE b

(* ---------------- _get_status (lines 86-127) ---------------- *)
\* GetStatus with the HTTPError handler (lines 114-120) marking the failure retryable
GetStatus_HttpRetried(o) ==
    CASE o \in {"pending", "completed", "error", "unknown"} ->
            [raised |-> FALSE, error |-> FALSE, retry_with_backoff |-> FALSE, result |-> o]
      [] o \in {"timeout", "http_error"} ->
            [raised |-> FALSE, error |-> TRUE, retry_with_backoff |-> TRUE, result |-> "none"]
      [] o \in {"connection", "malformed"} ->
            [raised |-> TRUE, error |-> FALSE, retry_with_backoff |-> FALSE, result |-> "none"]
      [] o = "other_exception" ->
            [raised |-> FALSE, error |-> TRUE, retry_with_backoff |-> FALSE, result |-> "none"]

\* One request classified (lines 86-127).  The handlers of ConnectionError and ValueError execute
\* "curr_interval += ..." on a name that is local to _get_status and unbound:
\* UnboundLocalError is raised inside the handler and leaves _get_status.
GetStatus(o) ==
    CASE o \in {"pending", "completed", "error", "unknown"} ->
            [raised |-> FALSE, error |-> FALSE, retry_with_backoff |-> FALSE, result |-> o]
      [] o = "timeout" ->
            [raised |-> FALSE, error |-> TRUE, retry_with_backoff |-> TRUE, result |-> "none"]
      [] o \in {"connection", "malformed"} ->
            [raised |-> TRUE, error |-> FALSE, retry_with_backoff |-> FALSE, result |-> "none"]
      [] o \in {"http_error", "other_exception"} ->
            [raised |-> FALSE, error |-> TRUE, retry_with_backoff |-> FALSE, result |-> "none"]

(* ---------------- _poll_status (lines 48-84) ---------------- *)
\* line 55: the loop condition
RetriesLeft(retries) == max_retries = INF \/ retries < max_retries

\* PollReturn with the pending branch returning the status instead of looping
PollReturn_PendingReturns(resp) ==
    IF ~resp.error
    THEN CASE resp.result \in {"completed", "error", "pending"} -> resp.result
           [] OTHER -> "error"
    ELSE IF ~resp.retry_with_backoff THEN "ClientError" ELSE "none"

\* lines 58-76: what one iteration does with the response; "none" means fall
\* through to the sleep on line 79
PollReturn(resp) ==
    IF ~resp.error
    THEN CASE resp.result \in {"completed", "error"} -> resp.result
           [] resp.result = "pending" -> "none"
           [] OTHER -> "error"
    ELSE IF ~resp.retry_with_backoff THEN "ClientError" ELSE "none"

\* line 76: the interval after a retryable failure
Backoff(c) == c + Min(backoff_factor * c, max_interval)

\* IntervalAfter with the pending branch escalating like a failure
IntervalAfter_AlwaysBackoff(resp, c) == Backoff(c)

\* lines 73-76: only a retryable failure changes the interval before the sleep
IntervalAfter(resp, c) == IF resp.error /\ resp.retry_with_backoff THEN Backoff(c) ELSE c

\* PollStopEvent with lines 62 and 66 calling set() instead of is_set()
PollStopEvent_Sets(resp) ==
    IF ~resp.error /\ resp.result \in {"completed", "error"} THEN TRUE ELSE stop_event

\* lines 62 and 66: self._stop_event.is_set() only reads the flag
PollStopEvent(resp) == stop_event

\* lines 55-76: one trip round the loop up to the sleep.  The locals retries
\* and curr_interval cease to exist when _poll_status returns or raises; the
\* model zeroes them there.  fetches, sleeps, last and consec (the number of
\* retryable failures in a row up to now) are bookkeeping.
PollFetch(r, o) ==
    LET run == runs[r]
        resp == GetStatus(o)
        fetched == [run EXCEPT !.fetches = @ + 1, !.last = o,
                               !.consec = IF resp.error /\ resp.retry_with_backoff THEN @ + 1 ELSE 0]
    IN  /\ run.pc = "poll"
        /\ RetriesLeft(run.retries)
        /\ run.fetches < MaxFetches
        /\ runs' = [runs EXCEPT ![r] =
              IF resp.raised THEN [fetched EXCEPT !.pc = "raised", !.retries = 0, !.curr_interval = 0,
                                                  !.consec = 0]
              ELSE IF PollReturn(resp) # "none"
                   THEN [fetched EXCEPT !.pc = "polled", !.result = PollReturn(resp),
                                        !.retries = 0, !.curr_interval = 0, !.consec = 0]
                   ELSE [fetched EXCEPT !.pc = "sleep",
                                        !.curr_interval = IntervalAfter(resp, run.curr_interval)]]
        /\ stop_event' = PollStopEvent(resp)
        /\ UNCHANGED <<current_thread, max_retries, outcomes, config, fgpc, calls, cbLog>>

\* lines 79-81: the sleep, the jittered reset of the interval, the retry count
PollSleep(r, j) ==
    /\ runs[r].pc = "sleep"
    /\ runs' = [runs EXCEPT ![r] = [@ EXCEPT !.pc = "poll", !.sleeps = @ + 1,
                                             !.curr_interval = initial_polling_interval + j,
                                             !.retries = @ + 1]]
    /\ UNCHANGED <<stop_event, current_thread, max_retries, outcomes, config, fgpc, calls, cbLog>>

\* lines 83-84: the loop condition failed
PollExhaust(r) ==
    /\ runs[r].pc = "poll"
    /\ ~RetriesLeft(runs[r].retries)
    /\ runs' = [runs EXCEPT ![r] = [@ EXCEPT !.pc = "polled", !.result = "pending",
                                             !.retries = 0, !.curr_interval = 0, !.consec = 0]]
    /\ UNCHANGED <<stop_event, current_thread, max_retries, outcomes, config, fgpc, calls, cbLog>>

(* ---------------- wait_for_completion (lines 129-134) ---------------- *)
WaitForCompletionBegin ==
    /\ fgpc = "idle"
    /\ Len(calls) < MaxCalls
    /\ calls' = Append(calls, [op |-> "wait", first |-> "none", ret |-> "none", stopped |-> FALSE,
                             fetches |-> 0, flag_before |-> stop_event,
                             thread_before |-> current_thread])
    /\ runs' = [runs EXCEPT ![0] = NewRun]
    /\ fgpc' = "w_poll"
    /\ UNCHANGED <<stop_event, current_thread, max_retries, outcomes, config, cbLog>>

WaitForCompletionReturn ==
    /\ fgpc = "w_poll"
    /\ runs[0].pc \in {"polled", "raised"}
    /\ calls' = [calls EXCEPT ![Len(calls)].ret =
                    IF runs[0].pc = "raised" THEN "raised" ELSE runs[0].result]
    /\ fgpc' = "idle"
    /\ UNCHANGED <<stop_event, current_thread, max_retries, outcomes, config, runs, cbLog>>

(* ---------------- check_status_async (lines 136-161) ---------------- *)
\* Thread.is_alive(): started and run() not yet finished
IsAlive(t) == runs[t].pc \in {"poll", "sleep", "polled", "call"}

\* lines 140-142.  calls[c].stopped records that line 142 ran; runs[t].cancelled
\* records, for every thread alive at that moment, that the one shared flag
\* was set while it was running; calls[c].flag_before is the flag on entry and
\* calls[c].thread_before are the flag and current_thread on entry, and
\* calls[c].fetches counts the fetches made on the caller's thread (all of
\* them bookkeeping for the properties).
CheckStatusAsyncBegin ==
    LET alive == current_thread # 0 /\ IsAlive(current_thread) IN
    /\ fgpc = "idle"
    /\ Len(calls) < MaxCalls
    /\ calls' = Append(calls, [op |-> "async", first |-> "none", ret |-> "none", stopped |-> alive,
                             fetches |-> 0, flag_before |-> stop_event,
                             thread_before |-> current_thread])
    /\ stop_event' = IF alive THEN TRUE ELSE stop_event
    /\ runs' = IF alive
               THEN [t \in RunIds |-> IF t # 0 /\ IsAlive(t)
                                      THEN [runs[t] EXCEPT !.cancelled = TRUE] ELSE runs[t]]
               ELSE runs
    /\ fgpc' = "a_fetch"
    /\ UNCHANGED <<current_thread, max_retries, outcomes, config, cbLog>>

\* AsyncReturn with line 152 testing "completed" only
AsyncReturn_ErrorFallsThrough(resp) ==
    IF resp.error /\ ~resp.retry_with_backoff THEN "ClientError"
    ELSE IF resp.result = "completed" THEN resp.result
    ELSE "none"

\* lines 147-153: "none" means fall through to line 156
AsyncReturn(resp) ==
    IF resp.error /\ ~resp.retry_with_backoff THEN "ClientError"
    ELSE IF resp.result \in {"completed", "error"} THEN resp.result
    ELSE "none"

\* AsyncNext with a pending immediate check polling again on the caller
AsyncNext_FetchesAgain(ret) == IF ret = "none" THEN "a_fetch" ELSE "idle"

\* where check_status_async goes after its fetch: lines 148/153 return,
\* otherwise line 156 follows
AsyncNext(ret) == IF ret = "none" THEN "a_clear" ELSE "idle"

\* lines 145-153
CheckStatusAsyncFetch(o) ==
    LET resp == GetStatus(o)
        c == Len(calls)
        ret == IF resp.raised THEN "raised" ELSE AsyncReturn(resp)
    IN  /\ fgpc = "a_fetch"
        /\ calls' = [calls EXCEPT ![c].first = o, ![c].ret = ret, ![c].fetches = @ + 1]
        /\ fgpc' = AsyncNext(ret)
        /\ UNCHANGED <<stop_event, current_thread, max_retries, outcomes, config, runs, cbLog>>

\* ClearedFlag with line 156 missing
ClearedFlag_Kept == stop_event

\* line 156: self._stop_event.clear()
ClearedFlag == FALSE

\* line 156
CheckStatusAsyncClear ==
    /\ fgpc = "a_clear"
    /\ stop_event' = ClearedFlag
    /\ fgpc' = "a_start"
    /\ UNCHANGED <<current_thread, max_retries, outcomes, config, calls, runs, cbLog>>

\* lines 157-161.  runs[c].born_cancelled records the flag the new thread
\* finds when it starts (bookkeeping).
CheckStatusAsyncStart ==
    LET c == Len(calls) IN
    /\ fgpc = "a_start"
    /\ current_thread' = c
    /\ runs' = [runs EXCEPT ![c] = [NewRun EXCEPT !.born_cancelled = stop_event]]
    /\ calls' = [calls EXCEPT ![c].ret = "pending"]
    /\ fgpc' = "idle"
    /\ UNCHANGED <<stop_event, max_retries, outcomes, config, cbLog>>

(* ---------------- _async_poll (lines 163-169) ---------------- *)
\* line 168: the read of the flag
AsyncPollCheck(t) ==
    /\ runs[t].pc = "polled"
    /\ runs' = [runs EXCEPT ![t].pc = IF stop_event THEN "done" ELSE "call"]
    /\ UNCHANGED <<stop_event, current_thread, max_retries, outcomes, config, fgpc, calls, cbLog>>

\* line 169: callback(result)
AsyncPollCallback(t) ==
    /\ runs[t].pc = "call"
    /\ cbLog' = Append(cbLog, [cb |-> t, result |-> runs[t].result, cancelled |-> runs[t].cancelled])
    /\ runs' = [runs EXCEPT ![t].pc = "done"]
    /\ UNCHANGED <<stop_event, current_thread, max_retries, outcomes, config, fgpc, calls>>

(* ---------------- the specification ---------------- *)
Init ==
    /\ stop_event = FALSE
    /\ current_thread = 0
    /\ max_retries \in (0..MaxRetriesBound) \cup {INF}
    /\ outcomes \in {PendingOnly, ServerOutcomes, AllOutcomes}
    /\ config = DefaultConfig
    /\ fgpc = "idle"
    /\ calls = <<>>
    /\ runs = [r \in RunIds |-> NoRun]
    /\ cbLog = <<>>

Next ==
    \/ WaitForCompletionBegin
    \/ WaitForCompletionReturn
    \/ CheckStatusAsyncBegin
    \/ \E o \in outcomes : CheckStatusAsyncFetch(o)
    \/ CheckStatusAsyncClear
    \/ CheckStatusAsyncStart
    \/ \E r \in RunIds, o \in outcomes : PollFetch(r, o)
    \/ \E r \in RunIds, j \in JitterLo..JitterHi : PollSleep(r, j)
    \/ \E r \in RunIds : PollExhaust(r)
    \/ \E t \in ThreadIds : AsyncPollCheck(t)
    \/ \E t \in ThreadIds : AsyncPollCallback(t)

Spec == Init /\ [][Next]_vars

(* ---------------- the retry loop under other configurations ---------------- *)
\* values given to initial_polling_interval, backoff_factor and max_interval,
\* all with initial_polling_interval <= max_interval
Configs ==
    {DefaultConfig,
     [initial_polling_interval |-> 20, backoff_factor |-> 2, max_interval |-> 30],
     [initial_polling_interval |-> 2, backoff_factor |-> 3, max_interval |-> 4],
     [initial_polling_interval |-> 4, backoff_factor |-> 2, max_interval |-> 4]}

InitConfig ==
    /\ stop_event = FALSE
    /\ current_thread = 0
    /\ max_retries \in {MaxRetriesBound, INF}
    /\ outcomes = AllOutcomes
    /\ config \in Configs
    /\ fgpc = "idle"
    /\ calls = <<>>
    /\ runs = [r \in RunIds |-> NoRun]
    /\ cbLog = <<>>

\* wait_for_completion only: _poll_status on the caller's thread
NextConfig ==
    \/ WaitForCompletionBegin
    \/ WaitForCompletionReturn
    \/ \E o \in outcomes : PollFetch(0, o)
    \/ \E j \in JitterLo..JitterHi : PollSleep(0, j)
    \/ PollExhaust(0)

SpecConfig == InitConfig /\ [][NextConfig]_vars

TypeOK ==
    /\ stop_event \in BOOLEAN
    /\ current_thread \in 0..MaxCalls
    /\ fgpc \in {"idle", "w_poll", "a_fetch", "a_clear", "a_start"}
    /\ Len(calls) <= MaxCalls
    /\ Len(cbLog) <= MaxCalls

(* ---------------- helpers of the properties ---------------- *)
\* number of invocations of the callback passed to call c
Invocations(c) == Cardinality({i \in 1..Len(cbLog) : cbLog[i].cb = c})

\* _poll_status of run r has returned
Returned(r) == runs[r].pc \in {"polled", "call", "done"}

\* thread t is running and its check on line 168 would let the callback fire
\* (or has already let it through)
Live(t) == \/ runs[t].pc \in {"poll", "sleep", "polled"} /\ ~stop_event
           \/ runs[t].pc = "call"

DefinitiveOutcomes == {"http_error", "other_exception", "unknown"}
TransientOutcomes == {"timeout", "connection", "malformed"}

(* ---------------- C1 ---------------- *)
\* C1: two check_status_async calls whose immediate checks both saw pending,
\* the second made while the first call's thread was alive: once both threads
\* have finished, exactly one callback invocation happened, the second call's.
C1_SecondCallbackOnly ==
    ( /\ Len(calls) = 2
      /\ calls[1].op = "async" /\ calls[1].first = "pending"
      /\ calls[2].op = "async" /\ calls[2].first = "pending"
      /\ calls[2].stopped
      /\ runs[1].pc = "done" /\ runs[2].pc = "done" )
    => (Len(cbLog) = 1 /\ cbLog[1].cb = 2)

(* ---------------- C2 ---------------- *)
\* C2: single flight: at most one background thread is live, i.e. running
\* with a cancellation check that would let its callback fire.
C2_SingleFlight == Cardinality({t \in ThreadIds : Live(t)}) <= 1

(* ---------------- C3 ---------------- *)
\* C3: a thread for which a later check_status_async call has set the stop
\* flag never invokes its callback afterwards, and callbacks fire in the order
\* in which their calls were made.
C3_NoStaleCallback ==
    \A i \in 1..Len(cbLog) :
        /\ ~cbLog[i].cancelled
        /\ \A j \in 1..(i - 1) : cbLog[j].cb < cbLog[i].cb

(* ---------------- C4 ---------------- *)
\* C4: once the caller has made and finished all its calls, a thread that no
\* later call superseded by starting a new thread, and whose loop ended on a
\* terminal or definitive outcome, has invoked its callback exactly once by
\* the time it ends; no callback is invoked twice.
C4_CallbackDelivered ==
    /\ \A t \in ThreadIds :
          ( /\ runs[t].pc = "done"
            /\ fgpc = "idle" /\ Len(calls) = MaxCalls
            /\ \A u \in ThreadIds : u > t => runs[u].pc = "none"
            /\ runs[t].last \in {"completed", "error"} \cup DefinitiveOutcomes )
          => Invocations(t) = 1
    /\ \A t \in ThreadIds : Invocations(t) <= 1

(* ---------------- C5 ---------------- *)
\* C5: a check_status_async call whose immediate fetch yields completed or
\* error returns that status, starts no thread, and its callback is never
\* invoked.
C5_TerminalImmediate ==
    \A c \in 1..Len(calls) :
        (calls[c].op = "async" /\ calls[c].first \in {"completed", "error"})
        => /\ calls[c].ret = calls[c].first
           /\ runs[c].pc = "none"
           /\ Invocations(c) = 0
           /\ current_thread # c

\* a call answered completed at once, made while an earlier call's thread
\* went on to deliver its own callback
C5_Witness ==
    \E c \in 1..Len(calls) :
        /\ calls[c].op = "async" /\ calls[c].first = "completed" /\ fgpc = "idle"
        /\ \E b \in 1..Len(calls) : b # c /\ runs[b].pc = "done"

C7_WaitReturnsTerminal ==
    ( /\ Len(calls) > 0
      /\ calls[Len(calls)].op = "wait"
      /\ max_retries = INF
      /\ runs[0].pc \in {"polled", "raised"}
      /\ runs[0].last \notin DefinitiveOutcomes )
    => /\ runs[0].pc = "polled"
       /\ runs[0].last \in {"completed", "error"}
       /\ runs[0].result = runs[0].last

(* ---------------- C8 ---------------- *)
\* C8: with max_retries = R finite and every fetch answering pending, a run of
\* the retry loop that has ended made exactly R + 1 fetches and returned
\* pending.
C8_RetriesPlusOne ==
    \A r \in RunIds :
        (outcomes = PendingOnly /\ max_retries # INF /\ Returned(r))
        => (runs[r].result = "pending" /\ runs[r].fetches = max_retries + 1)

(* ---------------- C9 ---------------- *)
\* C9: no public call raises and no background thread dies of an exception;
\* a run that ended after a transient failure returned pending.
C9_NoException ==
    /\ \A r \in RunIds : runs[r].pc # "raised"
    /\ \A c \in 1..Len(calls) : calls[c].ret # "raised"
    /\ \A r \in RunIds :
          (Returned(r) /\ runs[r].last \in TransientOutcomes) => runs[r].result = "pending"

(* ---------------- C10 ---------------- *)
\* C10: when the endpoint only answers pending, completed or error and
\* max_retries is unbounded, every callback invocation carries completed or
\* error.
C10_CallbackTerminal ==
    (outcomes \subseteq ServerOutcomes /\ max_retries = INF)
    => \A i \in 1..Len(cbLog) : cbLog[i].result \in {"completed", "error"}

\* a callback delivered by a thread that saw pending before the final status
C10_Witness ==
    /\ outcomes = ServerOutcomes
    /\ max_retries = INF
    /\ \E i \in 1..Len(cbLog) :
          runs[cbLog[i].cb].fetches >= 2 /\ cbLog[i].result = "error"

(* ---------------- C11 ---------------- *)
\* C11: check_status_async makes exactly one fetch on the caller's thread and
\* no sleep there before it returns; the retry loop of the call (its further
\* fetches and its sleeps) runs only in the thread the call starts.
C11_OneFetchOnCaller ==
    /\ \A c \in 1..Len(calls) :
          calls[c].op = "async"
          => /\ calls[c].fetches <= 1
             /\ calls[c].ret # "none" => calls[c].fetches = 1
             /\ (c = Len(calls) /\ fgpc # "idle") => runs[c].pc = "none"
    /\ fgpc \in {"a_fetch", "a_clear", "a_start"} => runs[0].pc \notin {"poll", "sleep"}

\* a call that returned pending after its one fetch, whose thread has since
\* slept and fetched again
C11_Witness ==
    \E c \in 1..Len(calls) :
        /\ calls[c].op = "async" /\ calls[c].ret = "pending" /\ calls[c].fetches = 1
        /\ runs[c].fetches >= 2 /\ runs[c].sleeps >= 1

(* ---------------- C12 ---------------- *)
RECURSIVE Pow(_, _)
Pow(b, n) == IF n = 0 THEN 1 ELSE b * Pow(b, n - 1)

\* C12: the sleep after the N-th retryable failure in a row lasts
\* min(backoff_factor^N * initial_polling_interval, max_interval).
C12_BackoffSchedule ==
    \A r \in RunIds :
        (runs[r].pc = "sleep" /\ runs[r].consec >= 1)
        => runs[r].curr_interval =
              Min(Pow(backoff_factor, runs[r].consec) * initial_polling_interval, max_interval)

(* ---------------- C13 ---------------- *)
\* C13: every sleep after a pending response, the first sleep of a run
\* included, lasts initial_polling_interval + j for some j in 1..4.
C13_PendingSleepJittered ==
    \A r \in RunIds :
        (runs[r].pc = "sleep" /\ runs[r].last = "pending")
        => runs[r].curr_interval \in
              (initial_polling_interval + JitterLo)..(initial_polling_interval + JitterHi)

\* C13 as amended: a sleep after a pending response lasts
\* initial_polling_interval when it is the first sleep of the run, and
\* initial_polling_interval + j for some j in 1..4 when it is a later one,
\* whatever responses and failures came before.
C13_PendingSleep ==
    \A r \in RunIds :
        (runs[r].pc = "sleep" /\ runs[r].last = "pending")
        => IF runs[r].sleeps = 0
           THEN runs[r].curr_interval = initial_polling_interval
           ELSE runs[r].curr_interval \in
                   (initial_polling_interval + JitterLo)..(initial_polling_interval + JitterHi)

\* the third sleep of a run, after a pending response, under a configuration
\* other than the default
C13_Witness ==
    /\ config # DefaultConfig
    /\ runs[0].pc = "sleep" /\ runs[0].last = "pending" /\ runs[0].sleeps = 2

(* ---------------- C14 ---------------- *)
\* C14: with initial_polling_interval <= max_interval no sleep of the retry
\* loop lasts longer than max_interval.
C14_SleepWithinMax ==
    \A r \in RunIds :
        (runs[r].pc = "sleep" /\ initial_polling_interval <= max_interval)
        => runs[r].curr_interval <= max_interval

(* ---------------- C15 ---------------- *)
\* the response _get_status handed to the latest fetch of each run and to the
\* immediate check of each check_status_async call
Fetched ==
    {runs[r].last : r \in {q \in RunIds : runs[q].fetches > 0}}
    \cup {calls[c].first : c \in {d \in 1..Len(calls) : calls[d].fetches > 0}}

\* C15: _get_status answers a timeout, a connection failure and a malformed
\* body with a retryable failure without result, and an HTTP error status with
\* a non-retryable failure; it returns one such outcome for each request.
C15_Classification ==
    \A o \in Fetched :
        /\ o \in TransientOutcomes
           => GetStatus(o) = [raised |-> FALSE, error |-> TRUE,
                              retry_with_backoff |-> TRUE, result |-> "none"]
        /\ o = "http_error"
           => GetStatus(o) = [raised |-> FALSE, error |-> TRUE,
                              retry_with_backoff |-> FALSE, result |-> "none"]

(* ---------------- C16 ---------------- *)
\* C16: a 2xx response with an unrecognized result is a definitive error on
\* every entry point: the retry loop returns error without a further fetch,
\* and check_status_async returns error and starts no thread.
C16_UnknownIsError ==
    /\ \A r \in RunIds :
          runs[r].last = "unknown" => (Returned(r) /\ runs[r].result = "error")
    /\ \A c \in 1..Len(calls) :
          (calls[c].op = "async" /\ calls[c].first = "unknown" /\ calls[c].ret # "none")
          => (calls[c].ret = "error" /\ runs[c].pc = "none")

(* ---------------- C17 ---------------- *)
\* C17: a check_status_async call that returns without starting a thread
\* (immediate check completed, error or a definitive failure) leaves the stop
\* flag as it found it.
C17_EarlyReturnKeepsFlag ==
    ( /\ Len(calls) > 0
      /\ fgpc = "idle"
      /\ calls[Len(calls)].op = "async"
      /\ calls[Len(calls)].ret \in {"completed", "error", "ClientError"} )
    => stop_event = calls[Len(calls)].flag_before

(* ---------------- C18 ---------------- *)
\* C18: at most one background thread, cancelled or not, exists at a time.
C18_OneThread == Cardinality({t \in ThreadIds : IsAlive(t)}) <= 1

(* ---------------- C19 ---------------- *)
\* C19: check_status_async returns pending exactly when it started a thread,
\* and the stop flag is clear when that thread starts.
C19_PendingIffStarted ==
    \A c \in 1..Len(calls) :
        calls[c].op = "async"
        => /\ calls[c].ret = "pending" <=> runs[c].pc # "none"
           /\ ~runs[c].born_cancelled

\* a second call that set the flag for the running first thread and then
\* started its own thread with the flag clear
C19_Witness ==
    /\ Len(calls) = 2
    /\ calls[2].op = "async" /\ calls[2].stopped /\ calls[2].ret = "pending"
    /\ IsAlive(2)

====
